---- MODULE Spec2Model ----
(***************************************************************************)
(* Model of the LLM response reliability layer of post-mortem-analyzer:    *)
(* services.analyze_lessons and the helpers it calls (the retrying         *)
(* invoker analyze_with_llm, the normalisation of the reply, json.loads,   *)
(* attempt_json_repair, validate_response_structure, the coercion of       *)
(* confidences and the exception handlers).                                *)
(*                                                                         *)
(* A Python str is a sequence of one-character strings, so that slicing,   *)
(* strip, startswith/endswith, re.sub, re.search, str.replace and the JSON *)
(* scanner work on characters as the code does.  A parsed JSON value is a  *)
(* tagged record: [k |-> "obj", m |-> keys -> values], [k |-> "arr", a],   *)
(* [k |-> "str", s], [k |-> "int", n], [k |-> "float", ...],               *)
(* [k |-> "bool", b], [k |-> "null"].                                      *)
(***************************************************************************)
EXTENDS Integers, Sequences, FiniteSets, TLC

(***************************************************************************)
(* Python str primitives                                                   *)
(***************************************************************************)

\* s[i:i+1] with a 0-based index: the character, or "" past the end
Ch(s, i) ==
  IF i >= 0 /\ i < Len(s) THEN s[i + 1] ELSE ""

\* s[a:b] for 0 <= a, with b already resolved to a non-negative index
Slice(s, a, b) ==
  LET hi == IF b > Len(s) THEN Len(s) ELSE b
  IN  IF a >= hi THEN <<>> ELSE SubSeq(s, a + 1, hi)

\* s[:n]
Prefix(s, n) ==
  Slice(s, 0, n)

\* s[a:-b] for b > 0 (a negative stop counts from the end, clamped at 0)
SliceNeg(s, a, b) ==
  Slice(s, a, IF Len(s) - b < 0 THEN 0 ELSE Len(s) - b)

\* s.startswith(p, i): p occurs in s at 0-based offset i
MatchAt(s, p, i) ==
  /\ i >= 0
  /\ i + Len(p) <= Len(s)
  /\ \A j \in 1..Len(p) : s[i + j] = p[j]

StartsWith(s, p) ==
  MatchAt(s, p, 0)

EndsWith(s, p) ==
  MatchAt(s, p, Len(s) - Len(p))

\* p in s, for two str
IsSubstr(p, s) ==
  \E i \in 0..(Len(s) - Len(p)) : MatchAt(s, p, i)

\* the whitespace of str.strip and of the JSON scanner that the alphabet has
Whitespace ==
  {" ", "\n", "\t", "\r"}

\* str.strip()
strip(s) ==
  IF \A i \in 1..Len(s) : s[i] \in Whitespace
  THEN <<>>
  ELSE LET a == CHOOSE i \in 1..Len(s) :
                  /\ s[i] \notin Whitespace
                  /\ \A j \in 1..(i - 1) : s[j] \in Whitespace
           b == CHOOSE i \in 1..Len(s) :
                  /\ s[i] \notin Whitespace
                  /\ \A j \in (i + 1)..Len(s) : s[j] \in Whitespace
       IN  SubSeq(s, a, b)

\* first 0-based offset >= i at which p occurs in s, or -1
FindFrom(s, p, i) ==
  IF \E j \in i..(Len(s) - Len(p)) : MatchAt(s, p, j)
  THEN CHOOSE j \in i..(Len(s) - Len(p)) :
         /\ MatchAt(s, p, j)
         /\ \A h \in i..(j - 1) : ~MatchAt(s, p, h)
  ELSE -1

\* str.replace(p, r) for a pattern p of two different characters: the
\* occurrences cannot overlap, so each is replaced where it stands
RECURSIVE replaceFrom(_, _, _, _)
replaceFrom(s, p, r, i) ==
  LET j == FindFrom(s, p, i)
  IN  IF j = -1
      THEN Slice(s, i, Len(s))
      ELSE Slice(s, i, j) \o r \o replaceFrom(s, p, r, j + Len(p))

replace(s, p, r) ==
  replaceFrom(s, p, r, 0)

\* the backtick, which a TLA+ string cannot hold, is the character BACKTICK
BACKTICK ==
  "BACKTICK"

FENCE ==
  <<BACKTICK, BACKTICK, BACKTICK>>

FENCE_JSON ==
  FENCE \o <<"j", "s", "o", "n">>

\* re.sub of the pattern fence-json | fence by the empty string: leftmost
\* matches, the alternative with the json tag tried first at each position
RECURSIVE stripFencesFrom(_, _)
stripFencesFrom(s, i) ==
  LET j == FindFrom(s, FENCE, i)
  IN  IF j = -1
      THEN Slice(s, i, Len(s))
      ELSE Slice(s, i, j)
             \o stripFencesFrom(s, IF MatchAt(s, FENCE_JSON, j)
                                   THEN j + Len(FENCE_JSON)
                                   ELSE j + Len(FENCE))

(***************************************************************************)
(* json.loads: the scanner of the standard library                         *)
(***************************************************************************)

Ok(v, e) ==
  [ok |-> TRUE, val |-> v, end |-> e]

Fail(m, p) ==
  [ok |-> FALSE, msg |-> m, pos |-> p]

Digits ==
  {"0", "1", "2", "3", "4", "5", "6", "7", "8", "9"}

DigitVal(c) ==
  CASE c = "0" -> 0 [] c = "1" -> 1 [] c = "2" -> 2 [] c = "3" -> 3
    [] c = "4" -> 4 [] c = "5" -> 5 [] c = "6" -> 6 [] c = "7" -> 7
    [] c = "8" -> 8 [] c = "9" -> 9

\* first offset >= i that holds no JSON whitespace: WHITESPACE.match(s, i).end()
SkipWs(s, i) ==
  IF i >= Len(s)
  THEN i
  ELSE IF \A j \in i..(Len(s) - 1) : Ch(s, j) \in Whitespace
       THEN Len(s)
       ELSE CHOOSE j \in i..(Len(s) - 1) :
              /\ Ch(s, j) \notin Whitespace
              /\ \A h \in i..(j - 1) : Ch(s, h) \in Whitespace

\* first offset >= i that holds no digit
SkipDigits(s, i) ==
  IF i >= Len(s)
  THEN i
  ELSE IF \A j \in i..(Len(s) - 1) : Ch(s, j) \in Digits
       THEN Len(s)
       ELSE CHOOSE j \in i..(Len(s) - 1) :
              /\ Ch(s, j) \notin Digits
              /\ \A h \in i..(j - 1) : Ch(s, h) \in Digits

RECURSIVE NatOf(_, _, _)
\* the value of the digits s[a:b]
NatOf(s, a, b) ==
  IF a >= b THEN 0 ELSE NatOf(s, a, b - 1) * 10 + DigitVal(Ch(s, b - 1))

\* the characters that end a chunk of a JSON string: the quote, the
\* backslash and the control characters
StringStop ==
  {"\"", "\\", "\n", "\t", "\r"}

BACKSLASH(e) ==
  CASE e = "\"" -> "\""
    [] e = "\\" -> "\\"
    [] e = "/" -> "/"
    [] e = "n" -> "\n"
    [] e = "r" -> "\r"
    [] e = "t" -> "\t"
    [] e = "b" -> "BACKSPACE"
    [] e = "f" -> "\f"

RECURSIVE scanstringFrom(_, _, _, _)
\* scanstring: i is the offset after the opening quote at begin; acc is the
\* decoded content so far.  A \u escape followed by four hexadecimal digits
\* is outside the alphabet of the modelled replies.
scanstringFrom(s, begin, i, acc) ==
  IF \A j \in i..(Len(s) - 1) : Ch(s, j) \notin StringStop
  THEN Fail("Unterminated string starting at", begin)
  ELSE LET j == CHOOSE j \in i..(Len(s) - 1) :
                  /\ Ch(s, j) \in StringStop
                  /\ \A h \in i..(j - 1) : Ch(s, h) \notin StringStop
           c == Ch(s, j)
           got == acc \o Slice(s, i, j)
       IN  IF c = "\""
           THEN Ok([k |-> "str", s |-> got], j + 1)
           ELSE IF c # "\\"
           THEN Fail("Invalid control character at", j)
           ELSE LET e == Ch(s, j + 1)
                IN  IF e = ""
                    THEN Fail("Unterminated string starting at", begin)
                    ELSE IF e = "u"
                    THEN Fail("Invalid \\uXXXX escape", j + 1)
                    ELSE IF e \in {"\"", "\\", "/", "n", "r", "t", "b", "f"}
                    THEN scanstringFrom(s, begin, j + 2, Append(got, BACKSLASH(e)))
                    ELSE Fail("Invalid \\escape", j)

\* the number matched from i to d: the integer digits s[a:b], the fraction
\* digits s[b+1:c] when c > b, the exponent s[x:d] when d > c
number_value(s, i, a, b, c, x, d) ==
  IF c > b \/ d > c
  THEN Ok([k |-> "float", neg |-> a > i, ip |-> NatOf(s, a, b),
           frac |-> IF c > b THEN Slice(s, b + 1, c) ELSE <<>>,
           exp |-> IF d > c
                   THEN (IF Ch(s, c + 1) = "-" THEN -1 ELSE 1) * NatOf(s, x, d)
                   ELSE 0,
           special |-> "no"], d)
  ELSE Ok([k |-> "int", n |-> IF a > i THEN 0 - NatOf(s, a, b) ELSE NatOf(s, a, b)], d)

\* the optional exponent [eE][-+]?\d+ at c
number_exp(s, i, a, b, c, x) ==
  number_value(s, i, a, b, c, x,
               IF Ch(s, c) \in {"e", "E"} /\ Ch(s, x) \in Digits
               THEN SkipDigits(s, x)
               ELSE c)

\* the optional fraction \.\d+ at b
number_frac(s, i, a, b, c) ==
  number_exp(s, i, a, b, c, IF Ch(s, c + 1) \in {"+", "-"} THEN c + 2 ELSE c + 1)

\* the integer part 0|[1-9]\d* at a, which ends at b
number_int(s, i, a, b) ==
  IF b = a
  THEN [ok |-> FALSE]
  ELSE number_frac(s, i, a, b,
                   IF Ch(s, b) = "." /\ Ch(s, b + 1) \in Digits
                   THEN SkipDigits(s, b + 1)
                   ELSE b)

\* the optional sign, after which the digits start at a
number_sign(s, i, a) ==
  number_int(s, i, a,
             IF Ch(s, a) = "0" THEN a + 1
             ELSE IF Ch(s, a) \in Digits THEN SkipDigits(s, a)
             ELSE a)

\* match_number: (-?(?:0|[1-9]\d*))(\.\d+)?([eE][-+]?\d+)? at offset i;
\* [ok |-> FALSE] when the pattern does not match there
match_number(s, i) ==
  number_sign(s, i, IF Ch(s, i) = "-" THEN i + 1 ELSE i)

Word(w) ==
  CASE w = "null" -> <<"n", "u", "l", "l">>
    [] w = "true" -> <<"t", "r", "u", "e">>
    [] w = "false" -> <<"f", "a", "l", "s", "e">>
    [] w = "NaN" -> <<"N", "a", "N">>
    [] w = "Infinity" -> <<"I", "n", "f", "i", "n", "i", "t", "y">>
    [] w = "-Infinity" -> <<"-", "I", "n", "f", "i", "n", "i", "t", "y">>

FloatSpecial(w) ==
  [k |-> "float", neg |-> w = "-inf", ip |-> 0, frac |-> <<>>, exp |-> 0, special |-> w]

\* m with name bound to v: a later duplicate key overwrites
Put(m, name, v) ==
  [x \in (DOMAIN m) \cup {name} |-> IF x = name THEN v ELSE m[x]]

RECURSIVE scan_once(_, _), JSONObjectFrom(_, _, _), JSONArrayFrom(_, _, _)

\* after the value v of the member name: "}" ends the object, "," and a
\* quote start the next member
object_value(s, m, name, v) ==
  IF ~v.ok
  THEN v
  ELSE LET e == SkipWs(s, v.end)
           n == SkipWs(s, e + 1)
       IN  IF Ch(s, e) = "}"
           THEN Ok([k |-> "obj", m |-> Put(m, name, v.val)], e + 1)
           ELSE IF Ch(s, e) # ","
           THEN Fail("Expecting ',' delimiter", e)
           ELSE IF Ch(s, n) # "\""
           THEN Fail("Expecting property name enclosed in double quotes", n)
           ELSE JSONObjectFrom(s, n, Put(m, name, v.val))

\* after the key: the colon and the value
object_key(s, m, key) ==
  IF ~key.ok
  THEN key
  ELSE LET c == IF Ch(s, key.end) = ":" THEN key.end ELSE SkipWs(s, key.end)
       IN  IF Ch(s, c) # ":"
           THEN Fail("Expecting ':' delimiter", c)
           ELSE object_value(s, m, key.val.s, scan_once(s, SkipWs(s, c + 1)))

\* the members of an object from the offset i of a key's opening quote on;
\* m is the dict built so far
JSONObjectFrom(s, i, m) ==
  object_key(s, m, scanstringFrom(s, i, i + 1, <<>>))

\* after the element v: "]" ends the array, "," starts the next element
array_value(s, a, v) ==
  IF ~v.ok
  THEN v
  ELSE LET e == SkipWs(s, v.end)
       IN  IF Ch(s, e) = "]"
           THEN Ok([k |-> "arr", a |-> Append(a, v.val)], e + 1)
           ELSE IF Ch(s, e) # ","
           THEN Fail("Expecting ',' delimiter", e)
           ELSE JSONArrayFrom(s, SkipWs(s, e + 1), Append(a, v.val))

\* the elements of an array from the offset i of an element on
JSONArrayFrom(s, i, a) ==
  array_value(s, a, scan_once(s, i))

\* the last cases of scan_once: a number, matched as num, or NaN, Infinity,
\* -Infinity
number_or_constant(s, i, num) ==
  IF num.ok
  THEN num
  ELSE IF MatchAt(s, Word("NaN"), i)
  THEN Ok(FloatSpecial("nan"), i + 3)
  ELSE IF MatchAt(s, Word("Infinity"), i)
  THEN Ok(FloatSpecial("inf"), i + 8)
  ELSE IF MatchAt(s, Word("-Infinity"), i)
  THEN Ok(FloatSpecial("-inf"), i + 9)
  ELSE Fail("Expecting value", i)

\* scan_once(string, idx): the value that starts at offset i
scan_once(s, i) ==
  LET c == Ch(s, i)
      n == SkipWs(s, i + 1)
  IN  IF c = ""
      THEN Fail("Expecting value", i)
      ELSE IF c = "\""
      THEN scanstringFrom(s, i, i + 1, <<>>)
      ELSE IF c = "{"
      THEN IF Ch(s, n) = "}"
           THEN Ok([k |-> "obj", m |-> <<>>], n + 1)
           ELSE IF Ch(s, n) # "\""
           THEN Fail("Expecting property name enclosed in double quotes", n)
           ELSE JSONObjectFrom(s, n, <<>>)
      ELSE IF c = "["
      THEN IF Ch(s, n) = "]"
           THEN Ok([k |-> "arr", a |-> <<>>], n + 1)
           ELSE JSONArrayFrom(s, n, <<>>)
      ELSE IF MatchAt(s, Word("null"), i)
      THEN Ok([k |-> "null"], i + 4)
      ELSE IF MatchAt(s, Word("true"), i)
      THEN Ok([k |-> "bool", b |-> TRUE], i + 4)
      ELSE IF MatchAt(s, Word("false"), i)
      THEN Ok([k |-> "bool", b |-> FALSE], i + 5)
      ELSE number_or_constant(s, i, match_number(s, i))

\* the end of json.loads: nothing but whitespace may follow the value r
json_end(s, r) ==
  IF ~r.ok
  THEN r
  ELSE IF SkipWs(s, r.end) # Len(s)
  THEN Fail("Extra data", SkipWs(s, r.end))
  ELSE r

\* json.loads(s): one value between optional whitespace, nothing after it
json_loads(s) ==
  json_end(s, scan_once(s, SkipWs(s, 0)))

(***************************************************************************)
(* Python values, exceptions and the operations the pipeline applies       *)
(***************************************************************************)

K_unrecoverable_lines ==
  <<"u", "n", "r", "e", "c", "o", "v", "e", "r", "a", "b", "l", "e", "_", "l", "i", "n", "e", "s">>

K_common_ideas ==
  <<"c", "o", "m", "m", "o", "n", "_", "i", "d", "e", "a", "s">>

K_uncategorized_lines ==
  <<"u", "n", "c", "a", "t", "e", "g", "o", "r", "i", "z", "e", "d", "_", "l", "i", "n", "e", "s">>

K_summary ==
  <<"s", "u", "m", "m", "a", "r", "y">>

K_observations ==
  <<"o", "b", "s", "e", "r", "v", "a", "t", "i", "o", "n", "s">>

K_recommendations ==
  <<"r", "e", "c", "o", "m", "m", "e", "n", "d", "a", "t", "i", "o", "n", "s">>

K_title ==
  <<"t", "i", "t", "l", "e">>

K_overall_confidence ==
  <<"o", "v", "e", "r", "a", "l", "l", "_", "c", "o", "n", "f", "i", "d", "e", "n", "c", "e">>

K_examples ==
  <<"e", "x", "a", "m", "p", "l", "e", "s">>

K_text ==
  <<"t", "e", "x", "t">>

K_confidence ==
  <<"c", "o", "n", "f", "i", "d", "e", "n", "c", "e">>

K_error ==
  <<"e", "r", "r", "o", "r">>

K_debug_info ==
  <<"d", "e", "b", "u", "g", "_", "i", "n", "f", "o">>

\* a Python str built from fragments: the str is their concatenation
Str(t) ==
  [k |-> "str", s |-> t]

\* the outcome of an operation that may raise
Ret(v) ==
  [raised |-> FALSE, val |-> v]

Raise(c, m) ==
  [raised |-> TRUE, exc |-> [cls |-> c, msg |-> m]]

\* the direct base class of each exception class: the built-in hierarchy and
\* that of the openai package the module imports its retryable classes from
Base(c) ==
  CASE c = "Exception" -> "BaseException"
    [] c = "ValueError" -> "Exception"
    [] c = "JSONDecodeError" -> "ValueError"
    [] c = "TypeError" -> "Exception"
    [] c = "KeyError" -> "Exception"
    [] c = "RetryError" -> "Exception"
    [] c = "IndexError" -> "Exception"
    [] c = "OverflowError" -> "Exception"
    [] c = "OpenAIError" -> "Exception"
    [] c = "APIError" -> "OpenAIError"
    [] c = "APIConnectionError" -> "APIError"
    [] c = "APITimeoutError" -> "APIConnectionError"
    [] c = "APIStatusError" -> "APIError"
    [] c = "BadRequestError" -> "APIStatusError"
    [] c = "AuthenticationError" -> "APIStatusError"
    [] c = "PermissionDeniedError" -> "APIStatusError"
    [] c = "RateLimitError" -> "APIStatusError"
    [] c = "InternalServerError" -> "APIStatusError"

RECURSIVE issubclass(_, _)
issubclass(c, b) ==
  \/ c = b
  \/ c # "BaseException" /\ issubclass(Base(c), b)

\* type(v).__name__
TypeName(v) ==
  CASE v.k = "obj" -> "dict"
    [] v.k = "arr" -> "list"
    [] v.k = "str" -> "str"
    [] v.k = "int" -> "int"
    [] v.k = "float" -> "float"
    [] v.k = "bool" -> "bool"
    [] v.k = "null" -> "NoneType"

\* key in c, for a str key
py_in(key, c) ==
  CASE c.k = "obj" -> Ret(key \in DOMAIN c.m)
    [] c.k = "arr" -> Ret(\E i \in 1..Len(c.a) : c.a[i].k = "str" /\ c.a[i].s = key)
    [] c.k = "str" -> Ret(IsSubstr(key, c.s))
    [] OTHER -> Raise("TypeError", <<"argument of type '", TypeName(c), "' is not iterable">>)

\* c[key], for a str key
py_getitem(c, key) ==
  CASE c.k = "obj" -> IF key \in DOMAIN c.m
                      THEN Ret(c.m[key])
                      ELSE Raise("KeyError", <<"'">> \o key \o <<"'">>)
    [] c.k = "arr" -> Raise("TypeError", <<"list indices must be integers or slices, not str">>)
    [] c.k = "str" -> Raise("TypeError", <<"string indices must be integers, not 'str'">>)
    [] OTHER -> Raise("TypeError", <<"'", TypeName(c), "' object is not subscriptable">>)

RECURSIVE SetToSeq(_)
SetToSeq(S) ==
  IF S = {} THEN <<>>
  ELSE LET x == CHOOSE x \in S : TRUE IN <<x>> \o SetToSeq(S \ {x})

\* the elements a for loop over c visits: the elements of a list, the keys
\* of a dict, the characters of a str.  (The keys of a dict come in some
\* order; every key is a str, and what the pipeline does with a str element
\* does not depend on which one comes first.)
py_iter(c) ==
  CASE c.k = "arr" -> Ret(c.a)
    [] c.k = "obj" -> Ret([i \in 1..Cardinality(DOMAIN c.m) |-> Str(SetToSeq(DOMAIN c.m)[i])])
    [] c.k = "str" -> Ret([i \in 1..Len(c.s) |-> Str(<<c.s[i]>>)])
    [] OTHER -> Raise("TypeError", <<"'", TypeName(c), "' object is not iterable">>)

RECURSIVE Pow10(_)
Pow10(n) ==
  IF n <= 0 THEN 1 ELSE 10 * Pow10(n - 1)

\* the digits of a str accepted by int(): groups of digits joined by single
\* underscores
IsIntDigits(t) ==
  /\ Len(t) > 0
  /\ \A i \in 1..Len(t) : t[i] \in Digits \cup {"_"}
  /\ t[1] # "_" /\ t[Len(t)] # "_"
  /\ \A i \in 1..(Len(t) - 1) : ~(t[i] = "_" /\ t[i + 1] = "_")

NotUnderscore(c) ==
  c # "_"

\* mutant of py_int: a check in the place of the conversion, only an int
\* passes
py_int_strict(v) ==
  IF v.k = "int"
  THEN Ret(v)
  ELSE Raise("ValueError", <<"not an integer">>)

\* int(v)
py_int(v) ==
  CASE v.k = "int" -> Ret(v)
    [] v.k = "bool" -> Ret([k |-> "int", n |-> IF v.b THEN 1 ELSE 0])
    [] v.k = "float" ->
         IF v.special = "nan"
         THEN Raise("ValueError", <<"cannot convert float NaN to integer">>)
         ELSE IF v.special # "no"
         THEN Raise("OverflowError", <<"cannot convert float infinity to integer">>)
         ELSE LET mag == IF v.exp <= 0
                         THEN v.ip \div Pow10(0 - v.exp)
                         ELSE v.ip * Pow10(v.exp)
                                + NatOf(v.frac \o [i \in 1..v.exp |-> "0"], 0, v.exp)
              IN  Ret([k |-> "int", n |-> IF v.neg THEN 0 - mag ELSE mag])
    [] v.k = "str" ->
         LET t == strip(v.s)
             signed == Len(t) > 0 /\ t[1] \in {"+", "-"}
             d == IF signed THEN Tail(t) ELSE t
             mag == LET ds == SelectSeq(d, NotUnderscore) IN NatOf(ds, 0, Len(ds))
         IN  IF IsIntDigits(d)
             THEN Ret([k |-> "int", n |-> IF signed /\ t[1] = "-" THEN 0 - mag ELSE mag])
             ELSE Raise("ValueError",
                        <<"invalid literal for int() with base 10: '">> \o v.s \o <<"'">>)
    [] OTHER ->
         Raise("TypeError",
               <<"int() argument must be a string, a bytes-like object or a real number, not '",
                 TypeName(v), "'">>)

(***************************************************************************)
(* services.py: the helpers of analyze_lessons                             *)
(***************************************************************************)

\* extract_json_from_text: re.search of (\{[\s\S]*\})$ -- the leftmost "{"
\* that a "}" at the end of the text (or right before a final newline)
\* follows; the text itself when there is none
extract_json_from_text(text) ==
  LET n == Len(text)
      last == IF n >= 1 /\ text[n] = "}" THEN n
              ELSE IF n >= 2 /\ text[n] = "\n" /\ text[n - 1] = "}" THEN n - 1
              ELSE 0
  IN  IF last > 0 /\ \E i \in 1..(last - 1) : text[i] = "{"
      THEN LET first == CHOOSE i \in 1..(last - 1) :
                          /\ text[i] = "{"
                          /\ \A j \in 1..(i - 1) : text[j] # "{"
           IN  SubSeq(text, first, last)
      ELSE text

\* mutant of attempt_json_repair: the backslash-quote replacement is missing
attempt_json_repair_keeps_quotes(text) ==
  LET unfenced == strip(stripFencesFrom(text, 0))
      extracted == extract_json_from_text(unfenced)
  IN  replace(extracted, <<"\\", "n">>, <<" ">>)

\* attempt_json_repair
attempt_json_repair(text) ==
  LET unfenced == strip(stripFencesFrom(text, 0))
      extracted == extract_json_from_text(unfenced)
      unquoted == replace(extracted, <<"\\", "\"">>, <<"\"">>)
  IN  replace(unquoted, <<"\\", "n">>, <<" ">>)

\* mutant of clean_response: the two fence tests in the other order, so that
\* the json tag stays
clean_response_plain_first(result) ==
  LET r == strip(result)
  IN  IF StartsWith(r, FENCE) /\ EndsWith(r, FENCE)
      THEN strip(SliceNeg(r, 3, 3))
      ELSE IF StartsWith(r, FENCE_JSON) /\ EndsWith(r, FENCE)
      THEN strip(SliceNeg(r, 7, 3))
      ELSE r

\* the cleaning of the reply in analyze_lessons: strip, then the removal of
\* a code fence the text both starts and ends with
clean_response(result) ==
  LET r == strip(result)
  IN  IF StartsWith(r, FENCE_JSON) /\ EndsWith(r, FENCE)
      THEN strip(SliceNeg(r, 7, 3))
      ELSE IF StartsWith(r, FENCE) /\ EndsWith(r, FENCE)
      THEN strip(SliceNeg(r, 3, 3))
      ELSE r

\* mutant of required_structure: the entry of summary is missing
required_structure_no_summary ==
  << [field |-> K_unrecoverable_lines, type |-> "arr"],
     [field |-> K_common_ideas, type |-> "arr"],
     [field |-> K_uncategorized_lines, type |-> "arr"],
     [field |-> K_observations, type |-> "arr"],
     [field |-> K_recommendations, type |-> "arr"] >>

\* required_structure, in the order the dict is written
required_structure ==
  << [field |-> K_unrecoverable_lines, type |-> "arr"],
     [field |-> K_common_ideas, type |-> "arr"],
     [field |-> K_uncategorized_lines, type |-> "arr"],
     [field |-> K_summary, type |-> "str"],
     [field |-> K_observations, type |-> "arr"],
     [field |-> K_recommendations, type |-> "arr"] >>

NoExc ==
  [raised |-> FALSE]

RECURSIVE all_keys_in(_, _, _)
\* all(key in c for key in keys): stops at the first False, raises as the
\* first membership test raises
all_keys_in(keys, c, i) ==
  IF i > Len(keys)
  THEN Ret(TRUE)
  ELSE LET r == py_in(keys[i], c)
       IN  IF r.raised THEN r
           ELSE IF ~r.val THEN Ret(FALSE)
           ELSE all_keys_in(keys, c, i + 1)

RECURSIVE check_fields(_, _)
\* the loop over required_structure
check_fields(parsed_result, i) ==
  IF i > Len(required_structure)
  THEN NoExc
  ELSE LET f == required_structure[i]
           has == py_in(f.field, parsed_result)
       IN  IF has.raised THEN has
           ELSE IF ~has.val
           THEN Raise("ValueError", <<"Missing or invalid field: ">> \o f.field)
           ELSE LET v == py_getitem(parsed_result, f.field)
                IN  IF v.raised THEN v
                    ELSE IF v.val.k # f.type
                    THEN Raise("ValueError", <<"Missing or invalid field: ">> \o f.field)
                    ELSE check_fields(parsed_result, i + 1)

RECURSIVE check_examples(_, _)
\* the loop over idea["examples"]
check_examples(examples, i) ==
  IF i > Len(examples)
  THEN NoExc
  ELSE LET r == all_keys_in(<<K_text, K_confidence>>, examples[i], 1)
       IN  IF r.raised THEN r
           ELSE IF ~r.val
           THEN Raise("ValueError", <<"Invalid example structure in common_ideas">>)
           ELSE check_examples(examples, i + 1)

RECURSIVE check_ideas(_, _)
\* the loop over parsed_result["common_ideas"]
check_ideas(ideas, i) ==
  IF i > Len(ideas)
  THEN NoExc
  ELSE LET r == all_keys_in(<<K_title, K_overall_confidence, K_examples>>, ideas[i], 1)
       IN  IF r.raised THEN r
           ELSE IF ~r.val
           THEN Raise("ValueError", <<"Invalid common_ideas structure">>)
           ELSE LET ex == py_getitem(ideas[i], K_examples)
                IN  IF ex.raised THEN ex
                    ELSE LET it == py_iter(ex.val)
                         IN  IF it.raised THEN it
                             ELSE LET e == check_examples(it.val, 1)
                                  IN  IF e.raised THEN e
                                      ELSE check_ideas(ideas, i + 1)

\* validate_response_structure: NoExc, or the exception it raises
validate_response_structure(parsed_result) ==
  LET f == check_fields(parsed_result, 1)
  IN  IF f.raised THEN f
      ELSE check_ideas(parsed_result.m[K_common_ideas].a, 1)

\* c[key] = v on a dict
py_setitem(c, key, v) ==
  [k |-> "obj",
   m |-> [x \in (DOMAIN c.m) \cup {key} |-> IF x = key THEN v ELSE c.m[x]]]

RECURSIVE coerce_examples(_, _)
\* for example in idea["examples"]: example["confidence"] = int(example["confidence"])
coerce_examples(examples, i) ==
  IF i > Len(examples)
  THEN Ret(examples)
  ELSE LET c == py_getitem(examples[i], K_confidence)
       IN  IF c.raised THEN c
           ELSE LET n == py_int(c.val)
                IN  IF n.raised THEN n
                    ELSE coerce_examples(
                           [examples EXCEPT ![i] = py_setitem(examples[i], K_confidence, n.val)],
                           i + 1)

\* idea with its examples coerced: ce is the outcome of the inner loop over
\* the elements it of the examples ex.  The elements visited in a dict or a
\* str are str, which the assignment cannot change.
idea_examples(idea, ex, ce) ==
  IF ce.raised THEN ce
  ELSE IF ex.k = "arr"
  THEN Ret(py_setitem(idea, K_examples, [k |-> "arr", a |-> ce.val]))
  ELSE Ret(idea)

\* the inner loop, over the outcome it of iter(ex)
idea_iter(idea, ex, it) ==
  IF it.raised THEN it ELSE idea_examples(idea, ex, coerce_examples(it.val, 1))

\* for example in idea["examples"], ex the outcome of idea["examples"]
idea_loop(idea, ex) ==
  IF ex.raised THEN ex ELSE idea_iter(idea, ex.val, py_iter(ex.val))

\* idea["overall_confidence"] = n, n the outcome of int()
idea_confidence(idea, n) ==
  IF n.raised THEN n
  ELSE idea_loop(py_setitem(idea, K_overall_confidence, n.val),
                 py_getitem(py_setitem(idea, K_overall_confidence, n.val), K_examples))

\* int(oc), oc the outcome of idea["overall_confidence"]
idea_int(idea, oc) ==
  IF oc.raised THEN oc ELSE idea_confidence(idea, py_int(oc.val))

\* the body of the loop over the ideas, for one idea
coerce_idea(idea) ==
  idea_int(idea, py_getitem(idea, K_overall_confidence))

RECURSIVE coerce_ideas(_, _)

\* the loop goes on after the idea i, coerced as r
ideas_next(ideas, i, r) ==
  IF r.raised THEN r ELSE coerce_ideas([ideas EXCEPT ![i] = r.val], i + 1)

\* the loop over parsed_result["common_ideas"], from the idea i on
coerce_ideas(ideas, i) ==
  IF i > Len(ideas) THEN Ret(ideas) ELSE ideas_next(ideas, i, coerce_idea(ideas[i]))

\* parsed_result with the coerced ideas r
with_ideas(parsed_result, r) ==
  IF r.raised THEN r
  ELSE Ret(py_setitem(parsed_result, K_common_ideas, [k |-> "arr", a |-> r.val]))

\* "Ensure all confidence values are integers": the validated parsed_result
\* with every confidence replaced by its int(), or the exception raised
coerce_confidences(parsed_result) ==
  with_ideas(parsed_result, coerce_ideas(parsed_result.m[K_common_ideas].a, 1))

\* str(e) of a json.JSONDecodeError raised on doc
DecodeErrorText(f, doc) ==
  LET before == {i \in 1..f.pos : doc[i] = "\n"}
      lineno == Cardinality(before) + 1
      colno == IF before = {}
               THEN f.pos + 1
               ELSE f.pos - ((CHOOSE i \in before : \A j \in before : j <= i) - 1)
  IN  <<f.msg, ": line ", ToString(lineno), " column ", ToString(colno),
        " (char ", ToString(f.pos), ")">>

\* the outcome r of the scanner as a value or the JSONDecodeError raised
loads_outcome(doc, r) ==
  IF r.ok THEN Ret(r.val) ELSE Raise("JSONDecodeError", DecodeErrorText(r, doc))

\* json.loads(doc), as a value or the JSONDecodeError raised
loads(doc) ==
  loads_outcome(doc, json_loads(doc))

RECURSIVE join(_, _)
\* sep.join(parts)
join(parts, sep) ==
  IF parts = <<>> THEN <<>>
  ELSE IF Len(parts) = 1 THEN parts[1]
  ELSE parts[1] \o sep \o join(Tail(parts), sep)

\* create_llm_prompt: the fixed instructions around the lines joined by
\* newlines
create_llm_prompt(lines) ==
  <<"Analyze these post-mortem lessons ... to analyze:\n\n">>
    \o join(lines, <<"\n">>)
    \o <<"\n\nRemember: Return ONLY the valid JSON object ...">>

(***************************************************************************)
(* The retry policy of analyze_with_llm (the tenacity decorator)           *)
(***************************************************************************)

MAX_ATTEMPTS ==
  5

WAIT_MULTIPLIER ==
  1

WAIT_MIN ==
  4

WAIT_MAX ==
  30

DEBUG_CHARS ==
  500

RECURSIVE Pow2(_)
Pow2(n) ==
  IF n <= 0 THEN 1 ELSE 2 * Pow2(n - 1)

Min2(a, b) ==
  IF a <= b THEN a ELSE b

Max2(a, b) ==
  IF a >= b THEN a ELSE b

\* stop_after_attempt(5)
stop_after_attempt(attempt) ==
  attempt >= MAX_ATTEMPTS

\* mutant of wait_exponential: the lower bound min=4 is not applied
wait_exponential_no_min(attempt) ==
  Min2(WAIT_MULTIPLIER * Pow2(attempt - 1), WAIT_MAX)

\* wait_exponential(multiplier=1, min=4, max=30): the wait after the failed
\* attempt number attempt
wait_exponential(attempt) ==
  Max2(Max2(0, WAIT_MIN), Min2(WAIT_MULTIPLIER * Pow2(attempt - 1), WAIT_MAX))

\* the classes handed to retry_if_exception_type
RETRY_TYPES ==
  {"APIError", "APIConnectionError", "RateLimitError", "BadRequestError"}

\* retry_if_exception_type(...): isinstance(e, RETRY_TYPES)
retry_if_exception_type(exc) ==
  \E c \in RETRY_TYPES : issubclass(exc.cls, c)

\* mutant of reraise: reraise=False, the decorator raises its own RetryError
reraise_wrapped(exc) ==
  [cls |-> "RetryError", msg |-> <<"RetryError[<Future state=finished raised ", exc.cls, ">]">>]

\* reraise=True: what the decorator raises once it gives up on exc
reraise(exc) ==
  exc

(***************************************************************************)
(* The return values and the handlers of analyze_lessons                   *)
(***************************************************************************)

Unset ==
  [k |-> "unset"]

None ==
  [k |-> "null"]

\* mutant of ErrorPayload: every payload carries the message as debug_info too
ErrorPayload_with_debug_info(msg) ==
  [k |-> "obj", m |-> (K_error :> Str(msg)) @@ (K_debug_info :> Str(msg))]

\* {"error": msg}
ErrorPayload(msg) ==
  [k |-> "obj", m |-> (K_error :> Str(msg))]

\* {"error": msg, "debug_info": info}
DebugPayload(msg, info) ==
  [k |-> "obj", m |-> (K_error :> Str(msg)) @@ (K_debug_info :> Str(info))]

\* mutant of handle: the catch-all clause "except Exception" is missing
handle_no_catch_all(exc) ==
  IF issubclass(exc.cls, "ValueError")
  THEN [pc |-> "done", line |-> 211,
        ret |-> ErrorPayload(<<"Analysis failed: ">> \o exc.msg)]
  ELSE [pc |-> "raised", line |-> 0, ret |-> Unset]

\* mutant of handle: a ValueError sends the call back to the remote model
handle_asks_again(exc) ==
  IF issubclass(exc.cls, "ValueError")
  THEN [pc |-> "invoking", line |-> 0, ret |-> Unset]
  ELSE [pc |-> "done", line |-> 214,
        ret |-> ErrorPayload(<<"An unexpected error occurred: ">> \o exc.msg)]

\* the except clauses at the end of analyze_lessons, for an exception that
\* leaves the try block: the line that returns and the value returned, or
\* the exception going on to the caller
handle(exc) ==
  IF issubclass(exc.cls, "ValueError")
  THEN [pc |-> "done", line |-> 211,
        ret |-> ErrorPayload(<<"Analysis failed: ">> \o exc.msg)]
  ELSE IF issubclass(exc.cls, "Exception")
  THEN [pc |-> "done", line |-> 214,
        ret |-> ErrorPayload(<<"An unexpected error occurred: ">> \o exc.msg)]
  ELSE [pc |-> "raised", line |-> 0, ret |-> Unset]

\* mutant of malformed: the response goes into error_msg whole
malformed_whole(exc, result) ==
  DebugPayload(<<"The analysis response was malformed. Please try again.">>,
               <<"Failed to parse JSON: ">> \o exc.msg
                 \o <<". First 500 chars of response: ">>
                 \o result)

\* the except json.JSONDecodeError clause: error_msg and the payload
malformed(exc, result) ==
  DebugPayload(<<"The analysis response was malformed. Please try again.">>,
               <<"Failed to parse JSON: ">> \o exc.msg
                 \o <<". First 500 chars of response: ">>
                 \o Prefix(result, DEBUG_CHARS))

(***************************************************************************)
(* The inputs: the lines of a request and the replies of the remote model  *)
(***************************************************************************)

MaxLines ==
  2

MaxIdeas ==
  2

LongLen ==
  520

RECURSIVE SeqsUpTo(_, _)
\* the sequences over S of length at most n
SeqsUpTo(S, n) ==
  IF n = 0 THEN {<<>>}
  ELSE LET shorter == SeqsUpTo(S, n - 1)
       IN  shorter \cup {Append(q, x) : q \in {t \in shorter : Len(t) = n - 1}, x \in S}

LineSeqs ==
  {Prefix(<<<<"l", "1">>, <<"l", "2">>, <<"l", "3">>, <<"l", "4">>>>, n) : n \in 0..MaxLines}

\* JSON text builders for the replies
Q(t) ==
  <<"\"">> \o t \o <<"\"">>

Member(key, v) ==
  Q(key) \o <<":", " ">> \o v

Object(members) ==
  <<"{">> \o join(members, <<",", " ">>) \o <<"}">>

Array(items) ==
  <<"[">> \o join(items, <<",", " ">>) \o <<"]">>

T_null ==
  <<"n", "u", "l", "l">>

\* the confidence values a reply may carry
ConfidenceTexts ==
  { <<"8", "0">>, <<"1", "5", "0">>, <<"-", "5">>, <<"0">>, <<"1", "0", "0">>,
    Q(<<"8", "2">>), <<"8", "2", ".", "0">>, <<"8", "2", ".", "7">>,
    Q(<<"h", "i", "g", "h">>), Q(<<"8", "2", ".", "0">>), T_null,
    <<"t", "r", "u", "e">>, <<"N", "a", "N">>, <<"I", "n", "f", "i", "n", "i", "t", "y">>,
    Array(<<>>) }

ExampleText(conf) ==
  Object(<<Member(K_text, Q(<<"x">>)), Member(K_confidence, conf)>>)

IdeaText(oc, examples) ==
  Object(<<Member(K_title, Q(<<"t">>)), Member(K_overall_confidence, oc),
           Member(K_examples, examples)>>)

GoodIdea ==
  IdeaText(<<"8", "0">>, Array(<<ExampleText(<<"7", "5">>)>>))

\* an element of examples that is no well-formed example
OddExamples ==
  { Object(<<Member(K_text, Q(<<"x">>))>>),
    Object(<<Member(K_confidence, <<"7", "5">>)>>),
    Object(<<>>),
    <<"5">>,
    T_null,
    Q(<<"x">>),
    Q(K_text \o <<" ">> \o K_confidence),
    Array(<<Q(K_text), Q(K_confidence)>>),
    Array(<<>>) }

\* a value in the place of the list of examples
OddExampleLists ==
  { Object(<<>>),
    Q(<<>>),
    Q(<<"x">>),
    <<"5">>,
    T_null,
    Object(<<Member(K_text \o <<" ">> \o K_confidence, <<"1">>)>>),
    Object(<<Member(K_text, <<"1">>)>>),
    Array(<<>>),
    Array(<<ExampleText(<<"7", "5">>), ExampleText(<<"1", "5", "0">>)>>) }

\* an element of common_ideas that is no well-formed theme
OddIdeas ==
  { Object(<<Member(K_overall_confidence, <<"8", "0">>), Member(K_examples, Array(<<>>))>>),
    Object(<<Member(K_title, Q(<<"t">>)), Member(K_examples, Array(<<>>))>>),
    Object(<<Member(K_title, Q(<<"t">>)), Member(K_overall_confidence, <<"8", "0">>)>>),
    Object(<<>>),
    <<"5">>,
    T_null,
    Q(<<"x">>),
    Q(K_title \o K_overall_confidence \o K_examples),
    Array(<<Q(K_title), Q(K_overall_confidence), Q(K_examples)>>),
    Array(<<>>) }

IdeaTexts ==
  {IdeaText(c, Array(<<ExampleText(<<"7", "5">>)>>)) : c \in ConfidenceTexts}
    \cup {IdeaText(<<"8", "0">>, Array(<<ExampleText(c)>>)) : c \in ConfidenceTexts}
    \cup {IdeaText(<<"8", "0">>, Array(<<e>>)) : e \in OddExamples}
    \cup {IdeaText(<<"8", "0">>, l) : l \in OddExampleLists}
    \cup OddIdeas

\* the themes that lists of several themes are made of
IdeaPool ==
  { GoodIdea,
    IdeaText(<<"1", "5", "0">>, Array(<<ExampleText(Q(<<"8", "2">>))>>)),
    IdeaText(Q(<<"h", "i", "g", "h">>), Array(<<>>)),
    Object(<<>>) }

IdeaLists ==
  {Array(<<i>>) : i \in IdeaTexts}
    \cup {Array(l) : l \in SeqsUpTo(IdeaPool, MaxIdeas)}

\* the six members of a report, in the order of the prompt
ReportMembers(ideas, summary) ==
  << Member(K_unrecoverable_lines, Array(<<Q(<<"u">>)>>)),
     Member(K_common_ideas, ideas),
     Member(K_uncategorized_lines, Array(<<>>)),
     Member(K_summary, summary),
     Member(K_observations, Array(<<Q(<<"o">>)>>)),
     Member(K_recommendations, Array(<<>>)) >>

GoodMembers ==
  ReportMembers(Array(<<GoodIdea>>), Q(<<"s">>))

GoodReport ==
  Object(GoodMembers)

FieldNames ==
  <<K_unrecoverable_lines, K_common_ideas, K_uncategorized_lines, K_summary,
    K_observations, K_recommendations>>

\* s without its i-th element
Without(s, i) ==
  SubSeq(s, 1, i - 1) \o SubSeq(s, i + 1, Len(s))

\* the value of the i-th member replaced by v
WithValue(i, v) ==
  [GoodMembers EXCEPT ![i] = Member(FieldNames[i], v)]

\* the replies that are JSON documents
JsonBodies ==
  {Object(ReportMembers(l, Q(<<"s">>))) : l \in IdeaLists}
    \cup {Object(Without(GoodMembers, i)) : i \in 1..6}
    \cup {Object(WithValue(i, v)) : i \in 1..6,
            v \in {T_null, <<"5">>, Object(<<>>), Array(<<>>), Q(<<>>)}}
    \cup {Object(Append(GoodMembers, Member(K_error, Q(<<"e">>)))),
          Object(Append(GoodMembers, Member(K_debug_info, Q(<<"d">>)))),
          Object(<<Member(K_error, Q(<<"e">>))>>),
          Object(GoodMembers \o <<Member(K_summary, <<"5">>)>>),
          Object(<<Member(K_summary, <<"5">>)>> \o GoodMembers),
          Object(ReportMembers(Array(<<>>), Q(<<"a", "\\", "n", "b", "\\", "\"", "c">>))),
          Object(<<>>), Array(<<>>), Array(<<GoodReport>>), <<"5">>, T_null,
          Q(K_summary), Q(<<>>)}

\* s with every quote written as backslash-quote
OverEscaped(s) ==
  replace(s, <<"\"">>, <<"\\", "\"">>)

Repeat(c, n) ==
  [i \in 1..n |-> c]

Noise ==
  <<"H", "e", "r", "e", ":", " ">>

SmallObject ==
  Object(<<Member(K_title, Q(<<"t">>))>>)

\* the replies that are no JSON document
BrokenBodies ==
  { OverEscaped(SmallObject),
    OverEscaped(GoodReport),
    OverEscaped(Object(ReportMembers(Array(<<>>), Q(<<"a", "\\", "n", "b">>)))),
    OverEscaped(Object(Without(GoodMembers, 4))),
    <<"{">> \o OverEscaped(Q(K_title)) \o <<":", " ", "\"", "t", "\\", "\"", "}">>,
    Noise \o GoodReport,
    GoodReport \o <<" ">> \o Noise,
    Noise \o GoodReport \o <<"\n">> \o Noise,
    SmallObject \o <<" ">> \o GoodReport,
    GoodReport \o <<" ">> \o SmallObject,
    <<"}">> \o GoodReport \o <<"{">>,
    Noise \o SmallObject \o <<" ">> \o Noise \o GoodReport,
    Noise \o OverEscaped(GoodReport),
    Noise,
    <<>>,
    <<" ", "\n">>,
    <<"{">>,
    <<"}">>,
    <<"{", "\"", "a", "\"", ":", "1", ",", "}">>,
    <<"{", "\"", "a", "\"", ":", "\"", "b", "}">>,
    <<"{", "a", ":", "1", "}">>,
    Object(ReportMembers(Array(<<>>), <<"\"", "a", "\n", "b", "\"">>)),
    Object(ReportMembers(Array(<<>>), Q(FENCE \o <<"j", "s", "o", "n">>)) \o <<Q(<<"a">>)>>),
    FENCE,
    FENCE_JSON,
    Repeat("x", LongLen),
    Repeat("x", LongLen) \o <<"{", "a", "}">>,
    Noise \o Repeat("x", LongLen) \o GoodReport,
    <<"{">> \o Repeat(" ", LongLen) \o <<"\n", "x", "}">>,
    Repeat("\n", 2) \o <<"{", "\n", "\n", "x">> }

\* how a reply wraps its body
Wraps ==
  {"none", "json", "plain", "json_tight", "json_padded", "open", "close", "upper"}

Wrap(w, body) ==
  CASE w = "none" -> body
    [] w = "json" -> FENCE_JSON \o <<"\n">> \o body \o <<"\n">> \o FENCE
    [] w = "plain" -> FENCE \o <<"\n">> \o body \o <<"\n">> \o FENCE
    [] w = "json_tight" -> FENCE_JSON \o body \o FENCE
    [] w = "json_padded" -> <<"\n", " ">> \o FENCE_JSON \o <<" ">> \o body \o <<" ">> \o FENCE \o <<" ", "\n">>
    [] w = "open" -> FENCE_JSON \o <<"\n">> \o body
    [] w = "close" -> body \o <<"\n">> \o FENCE
    [] w = "upper" -> FENCE \o <<"J", "S", "O", "N", "\n">> \o body \o <<"\n">> \o FENCE

\* the bodies that come in every wrapping
WrappedBodies ==
  { GoodReport,
    SmallObject,
    Object(ReportMembers(Array(<<IdeaText(<<"1", "5", "0">>, Array(<<>>))>>), Q(<<"s">>))),
    Object(Without(GoodMembers, 4)),
    OverEscaped(SmallObject),
    OverEscaped(GoodReport),
    Noise \o GoodReport,
    GoodReport \o <<" ">> \o Noise,
    Noise,
    <<>> }

Replies ==
  {[k |-> "reply", wrap |-> "none", body |-> b] : b \in JsonBodies \cup BrokenBodies}
    \cup {[k |-> "reply", wrap |-> w, body |-> b] : w \in Wraps \ {"none"}, b \in WrappedBodies}

\* the text of a reply
ReplyText(r) ==
  Wrap(r.wrap, r.body)

\* the failures of the remote call, by class and message
FailureClasses ==
  {"APIConnectionError", "APITimeoutError", "RateLimitError", "BadRequestError",
   "InternalServerError", "AuthenticationError", "OpenAIError", "IndexError"}

FailureTexts ==
  {<<>>, <<"Connection error.">>, <<"Error code: 4xx">>}

(***************************************************************************)
(* One call of analyze_lessons                                             *)
(***************************************************************************)

VARIABLES
  pc,              \* where the call stands
  lines,           \* the argument of analyze_lessons
  prompt,          \* the local prompt
  attempt_number,  \* the attempt the retrying decorator is at
  requests,        \* the requests sent to the remote model so far
  delays,          \* the waits between the attempts so far
  firstExc,        \* the class of the failure of the first attempt, while the decorator runs
  outcome,         \* the exception of the latest attempt while the decorator holds it
  reply,           \* the reply of the remote model, as wrapping and body
  result,          \* the local result
  repaired_result, \* the local repaired_result
  parsed_result,   \* the local parsed_result
  loads_calls,     \* the calls of json.loads so far
  parseErrs,       \* the JSONDecodeErrors raised so far
  ret,             \* the value returned
  retLine          \* the line of the return statement that returned it

\* the state of the process that several calls share, and the calls that run
\* interleaved in it
VARIABLES
  MODEL,           \* the module global MODEL
  client,          \* the module global client
  heap,            \* the list objects of the callers, by address
  calls,           \* the frame of local variables of every interleaved call
  history          \* what every interleaved call was given, sent and received

cvars ==
  <<MODEL, client, heap, calls, history>>

vars ==
  <<pc, lines, prompt, attempt_number, requests, delays, firstExc, outcome, reply,
    result, repaired_result, parsed_result, loads_calls, parseErrs, ret, retLine, cvars>>

MaxCalls ==
  2

\* the calls that run in the process
CallIds ==
  1..MaxCalls

\* a secret or an environment variable that is not set
Absent ==
  "absent"

\* get_api_key(): the secret, else the environment variable when it is not
\* empty, else ValueError
get_api_key(secret, env) ==
  IF secret # Absent THEN Ret(secret)
  ELSE IF env \notin {Absent, ""} THEN Ret(env)
  ELSE Raise("ValueError",
             <<"No OpenAI API key found in Streamlit secrets or environment variables">>)

\* get_model(): the secret, else the environment variable when it is not
\* empty, else the default model
get_model(secret, env) ==
  IF secret # Absent THEN secret
  ELSE IF env \notin {Absent, ""} THEN env
  ELSE "gpt-3.5-turbo"

\* the local variables of a call that has not started
IdleFrame ==
  [pc |-> "idle", lines |-> 0, prompt |-> <<>>, attempt_number |-> 0,
   result |-> Unset, ret |-> Unset]

\* nothing given, sent or received yet
NoHistory ==
  [given |-> <<>>, request |-> Unset, delivered |-> Ret(Unset)]

\* the shared part of the state when the calls are looked at one at a time:
\* the process started with the key k and no model configured
OneAtATime ==
  /\ MODEL = get_model(Absent, Absent)
  /\ client = [api_key |-> get_api_key("k", Absent).val]
  /\ heap = [c \in CallIds |-> <<>>]
  /\ calls = [c \in CallIds |-> IdleFrame]
  /\ history = [c \in CallIds |-> NoHistory]

Init ==
  /\ pc = "idle"
  /\ lines = <<>>
  /\ prompt = <<>>
  /\ attempt_number = 0
  /\ requests = 0
  /\ delays = <<>>
  /\ firstExc = "none"
  /\ outcome = NoExc
  /\ reply = Unset
  /\ result = Unset
  /\ repaired_result = Unset
  /\ parsed_result = Unset
  /\ loads_calls = 0
  /\ parseErrs = <<>>
  /\ ret = Unset
  /\ retLine = 0
  /\ OneAtATime

\* the call ends with the outcome h of the handlers
Left(h) ==
  /\ pc' = h.pc
  /\ ret' = h.ret
  /\ retLine' = h.line

\* the call ends: the handlers take the exception exc that left the try block
Leave(exc) ==
  Left(handle(exc))

\* mutant of no_lines: "if lines is None"
no_lines_is_none(ls) ==
  FALSE

\* the guard of analyze_lessons: "if not lines"
no_lines(ls) ==
  Len(ls) = 0

\* analyze_lessons(ls) up to the call of analyze_with_llm
Call ==
  /\ pc = "idle"
  /\ \E ls \in LineSeqs :
       /\ lines' = ls
       /\ IF no_lines(ls)
          THEN /\ pc' = "done"
               /\ ret' = ErrorPayload(<<"No input data provided">>)
               /\ retLine' = 163
               /\ UNCHANGED <<prompt, attempt_number>>
          ELSE /\ pc' = "invoking"
               /\ prompt' = create_llm_prompt(ls)
               /\ attempt_number' = 1
               /\ UNCHANGED <<ret, retLine>>
  /\ UNCHANGED <<requests, delays, firstExc, outcome, reply, result, repaired_result,
                 parsed_result, loads_calls, parseErrs>>
  /\ UNCHANGED cvars

\* one attempt of analyze_with_llm that returns the content of the reply:
\* a text, or None
AttemptReturns ==
  /\ pc = "invoking"
  /\ requests' = requests + 1
  /\ \/ \E r \in Replies :
          /\ reply' = r
          /\ result' = Str(ReplyText(r))
     \/ /\ reply' = None
        /\ result' = None
  /\ outcome' = NoExc
  /\ firstExc' = "none"
  /\ pc' = "logging"
  /\ UNCHANGED <<lines, prompt, attempt_number, delays, repaired_result,
                 parsed_result, loads_calls, parseErrs, ret, retLine>>
  /\ UNCHANGED cvars

\* one attempt of analyze_with_llm that fails: the function logs and raises
\* again, and the decorator retries after a wait, or gives up and raises
AttemptRaises ==
  /\ pc = "invoking"
  /\ requests' = requests + 1
  /\ \E c \in FailureClasses, m \in FailureTexts :
       LET exc == [cls |-> c, msg |-> m]
       IN  /\ outcome' = Raise(c, m)
           /\ firstExc' = IF attempt_number = 1 THEN c ELSE firstExc
           /\ IF retry_if_exception_type(exc) /\ ~stop_after_attempt(attempt_number)
              THEN /\ delays' = Append(delays, wait_exponential(attempt_number))
                   /\ pc' = "waiting"
                   /\ UNCHANGED <<ret, retLine>>
              ELSE /\ Leave(reraise(exc))
                   /\ UNCHANGED delays
  /\ UNCHANGED <<lines, prompt, attempt_number, reply, result, repaired_result,
                 parsed_result, loads_calls, parseErrs>>
  /\ UNCHANGED cvars

\* the wait is over: the next attempt
Backoff ==
  /\ pc = "waiting"
  /\ attempt_number' = attempt_number + 1
  /\ pc' = "invoking"
  /\ UNCHANGED <<lines, prompt, requests, delays, firstExc, outcome, reply, result,
                 repaired_result, parsed_result, loads_calls, parseErrs, ret, retLine>>
  /\ UNCHANGED cvars

\* result[:200] for the log, the strip and the removal of the fence
Clean ==
  /\ pc = "logging"
  /\ IF result.k # "str"
     THEN /\ Leave([cls |-> "TypeError",
                    msg |-> <<"'", TypeName(result), "' object is not subscriptable">>])
          /\ UNCHANGED result
     ELSE /\ result' = Str(clean_response(result.s))
          /\ pc' = "parsing"
          /\ UNCHANGED <<ret, retLine>>
  /\ UNCHANGED <<lines, prompt, attempt_number, requests, delays, firstExc, outcome,
                 reply, repaired_result, parsed_result, loads_calls, parseErrs>>
  /\ UNCHANGED cvars

\* after the first json.loads, whose outcome is r
Parsed(r) ==
  IF r.raised
  THEN /\ parseErrs' = Append(parseErrs, r.exc)
       /\ pc' = "repairing"
       /\ UNCHANGED parsed_result
  ELSE /\ parsed_result' = r.val
       /\ pc' = "validating"
       /\ UNCHANGED parseErrs

\* json.loads(result)
Parse ==
  /\ pc = "parsing"
  /\ loads_calls' = loads_calls + 1
  /\ Parsed(loads(result.s))
  /\ UNCHANGED <<lines, prompt, attempt_number, requests, delays, firstExc, outcome,
                 reply, result, repaired_result, ret, retLine>>
  /\ UNCHANGED cvars

\* after the second json.loads, whose outcome is r: its JSONDecodeError ends
\* the call with the debug payload
Reparsed(r) ==
  IF r.raised
  THEN /\ parseErrs' = Append(parseErrs, r.exc)
       /\ ret' = malformed(r.exc, result.s)
       /\ retLine' = 195
       /\ pc' = "done"
       /\ UNCHANGED parsed_result
  ELSE /\ parsed_result' = r.val
       /\ pc' = "validating"
       /\ UNCHANGED <<parseErrs, ret, retLine>>

\* json.loads(repaired_result)
Repaired(repaired) ==
  /\ repaired_result' = Str(repaired)
  /\ Reparsed(loads(repaired))

\* the except clause of the first parse: attempt_json_repair and the second
\* json.loads
Repair ==
  /\ pc = "repairing"
  /\ loads_calls' = loads_calls + 1
  /\ Repaired(attempt_json_repair(result.s))
  /\ UNCHANGED <<lines, prompt, attempt_number, requests, delays, firstExc, outcome,
                 reply, result>>
  /\ UNCHANGED cvars

\* after validate_response_structure, whose outcome is v
Validated(v) ==
  IF v.raised
  THEN Leave(v.exc)
  ELSE /\ pc' = "coercing"
       /\ UNCHANGED <<ret, retLine>>

\* validate_response_structure(parsed_result)
Validate ==
  /\ pc = "validating"
  /\ Validated(validate_response_structure(parsed_result))
  /\ UNCHANGED <<lines, prompt, attempt_number, requests, delays, firstExc, outcome,
                 reply, result, repaired_result, parsed_result, loads_calls, parseErrs>>
  /\ UNCHANGED cvars

\* after the coercion, whose outcome is c: "return parsed_result"
Coerced(c) ==
  IF c.raised
  THEN /\ Leave(c.exc)
       /\ UNCHANGED parsed_result
  ELSE /\ parsed_result' = c.val
       /\ ret' = c.val
       /\ retLine' = 207
       /\ pc' = "done"

\* the coercion of the confidences and the return of the report
Coerce ==
  /\ pc = "coercing"
  /\ Coerced(coerce_confidences(parsed_result))
  /\ UNCHANGED <<lines, prompt, attempt_number, requests, delays, firstExc, outcome,
                 reply, result, repaired_result, loads_calls, parseErrs>>
  /\ UNCHANGED cvars

Next ==
  \/ Call
  \/ AttemptReturns
  \/ AttemptRaises
  \/ Backoff
  \/ Clean
  \/ Parse
  \/ Repair
  \/ Validate
  \/ Coerce

Spec ==
  Init /\ [][Next]_vars

(***************************************************************************)
(* Several calls of analyze_lessons interleaved in one process             *)
(***************************************************************************)

\* "return parsed_result", or the payload of the handlers for the exception
\* c of the coercion
coerced(c) ==
  IF c.raised THEN handle(c.exc).ret ELSE c.val

\* the value v after validate_response_structure, whose outcome is x
validated(v, x) ==
  IF x.raised THEN handle(x.exc).ret ELSE coerced(coerce_confidences(v))

\* after the second json.loads, whose outcome is r
second_parse(text, r) ==
  IF r.raised
  THEN malformed(r.exc, text)
  ELSE validated(r.val, validate_response_structure(r.val))

\* after the first json.loads, whose outcome is r
first_parse(text, r) ==
  IF r.raised
  THEN second_parse(text, loads(attempt_json_repair(text)))
  ELSE validated(r.val, validate_response_structure(r.val))

\* analyze_lessons from the log of the response on, as the value it returns
\* for the response
analyze_response(response) ==
  IF response.k # "str"
  THEN handle([cls |-> "TypeError",
               msg |-> <<"'", TypeName(response), "' object is not subscriptable">>]).ret
  ELSE first_parse(clean_response(response.s), loads(clean_response(response.s)))

\* mutant of frame: the local variables live in one frame for all the calls
frame_shared(cs, c) ==
  cs[1]

\* the local variables of the call c: every invocation has its own
frame(cs, c) ==
  cs[c]

\* the responses and the failures of the remote model for interleaved calls
ConcurrentReplies ==
  {Str(Object(ReportMembers(Array(<<>>), Q(<<"s">>)))), None}

ConcurrentFailures ==
  {[cls |-> "RateLimitError", msg |-> <<"Error code: 4xx">>],
   [cls |-> "IndexError", msg |-> <<"list index out of range">>]}

\* the lines of interleaved calls
ConcurrentLines ==
  {ls \in LineSeqs : Len(ls) <= 2}

\* the variables of the call looked at alone
svars ==
  <<pc, lines, prompt, attempt_number, requests, delays, firstExc, outcome, reply,
    result, repaired_result, parsed_result, loads_calls, parseErrs, ret, retLine>>

\* the frame f of a call given the list at the address a, which holds ls,
\* up to the call of analyze_with_llm
called(f, a, ls) ==
  IF no_lines(ls)
  THEN [f EXCEPT !.lines = a, !.pc = "done",
                 !.ret = ErrorPayload(<<"No input data provided">>)]
  ELSE [f EXCEPT !.lines = a, !.pc = "invoking",
                 !.prompt = create_llm_prompt(ls), !.attempt_number = 1]

\* client.chat.completions.create(model=MODEL, ...) with the prompt of f
request(f) ==
  [model |-> MODEL, api_key |-> client.api_key, prompt |-> f.prompt]

\* the frame f after an attempt of analyze_with_llm that raised exc
raised(f, exc) ==
  IF retry_if_exception_type(exc) /\ ~stop_after_attempt(f.attempt_number)
  THEN [f EXCEPT !.pc = "waiting"]
  ELSE [f EXCEPT !.pc = handle(reraise(exc)).pc, !.ret = handle(reraise(exc)).ret,
                 !.attempt_number = 0]

\* the process starts: the module is imported, client and MODEL are made
\* from the secrets and the environment; no call has started
InitConcurrent ==
  /\ pc = "idle"
  /\ lines = <<>>
  /\ prompt = <<>>
  /\ attempt_number = 0
  /\ requests = 0
  /\ delays = <<>>
  /\ firstExc = "none"
  /\ outcome = NoExc
  /\ reply = Unset
  /\ result = Unset
  /\ repaired_result = Unset
  /\ parsed_result = Unset
  /\ loads_calls = 0
  /\ parseErrs = <<>>
  /\ ret = Unset
  /\ retLine = 0
  /\ \E secret \in {Absent, "gpt-4o"}, env \in {Absent, ""} :
       MODEL = get_model(secret, env)
  /\ \E secret \in {Absent, "k"}, env \in {Absent, "", "k"} :
       /\ ~get_api_key(secret, env).raised
       /\ client = [api_key |-> get_api_key(secret, env).val]
  /\ heap = [c \in CallIds |-> <<>>]
  /\ calls = [c \in CallIds |-> IdleFrame]
  /\ history = [c \in CallIds |-> NoHistory]

\* a caller makes its list of lines and calls analyze_lessons with it
ConcurrentCall(c) ==
  /\ frame(calls, c).pc = "idle"
  /\ \E ls \in ConcurrentLines :
       /\ heap' = [heap EXCEPT ![c] = ls]
       /\ history' = [history EXCEPT ![c].given = ls]
       /\ calls' = [calls EXCEPT ![c] = called(frame(calls, c), c, ls)]
  /\ UNCHANGED <<MODEL, client, svars>>

\* an attempt of the call c returns the content of a response
ConcurrentAttemptReturns(c) ==
  /\ frame(calls, c).pc = "invoking"
  /\ \E content \in ConcurrentReplies :
       /\ calls' = [calls EXCEPT ![c] = [frame(calls, c) EXCEPT !.result = content,
                                                                 !.pc = "logging",
                                                                 !.attempt_number = 0]]
       /\ history' = [history EXCEPT ![c].request = request(frame(calls, c)),
                                     ![c].delivered = Ret(content)]
  /\ UNCHANGED <<MODEL, client, heap, svars>>

\* an attempt of the call c fails
ConcurrentAttemptRaises(c) ==
  /\ frame(calls, c).pc = "invoking"
  /\ \E exc \in ConcurrentFailures :
       /\ calls' = [calls EXCEPT ![c] = raised(frame(calls, c), exc)]
       /\ history' = [history EXCEPT ![c].request = request(frame(calls, c)),
                                     ![c].delivered = Raise(exc.cls, exc.msg)]
  /\ UNCHANGED <<MODEL, client, heap, svars>>

\* the wait of the call c is over
ConcurrentBackoff(c) ==
  /\ frame(calls, c).pc = "waiting"
  /\ calls' = [calls EXCEPT ![c] = [frame(calls, c) EXCEPT
                                      !.pc = "invoking",
                                      !.attempt_number = frame(calls, c).attempt_number + 1]]
  /\ UNCHANGED <<MODEL, client, heap, history, svars>>

\* the call c works on its response and returns
ConcurrentRespond(c) ==
  /\ frame(calls, c).pc = "logging"
  /\ calls' = [calls EXCEPT ![c] = [frame(calls, c) EXCEPT
                                      !.pc = "done",
                                      !.ret = analyze_response(frame(calls, c).result)]]
  /\ UNCHANGED <<MODEL, client, heap, history, svars>>

NextConcurrent ==
  \E c \in CallIds :
    \/ ConcurrentCall(c)
    \/ ConcurrentAttemptReturns(c)
    \/ ConcurrentAttemptRaises(c)
    \/ ConcurrentBackoff(c)
    \/ ConcurrentRespond(c)

SpecConcurrent ==
  InitConcurrent /\ [][NextConcurrent]_vars

(***************************************************************************)
(* Properties                                                              *)
(***************************************************************************)

\* the call has returned from "return parsed_result"
Succeeded ==
  pc = "done" /\ retLine = 207

\* the call has returned from one of the failure returns
Failed ==
  pc = "done" /\ retLine # 207

\* the str made of the fragments t is not ''
NonEmpty(t) ==
  \E i \in 1..Len(t) : t[i] # ""

\* v is a dict that holds an error message
IsErrorPayload(v) ==
  /\ v.k = "obj"
  /\ K_error \in DOMAIN v.m
  /\ v.m[K_error].k = "str"

\* C1: whatever the lines and whatever the remote model does, the call ends
\* by returning: no exception leaves analyze_lessons, and the value returned
\* is the report or a dict whose error is a non-empty string.
C1_AlwaysReturnsValue ==
  /\ pc # "raised"
  /\ Succeeded => ret = parsed_result /\ ret.k = "obj"
  /\ Failed => IsErrorPayload(ret) /\ NonEmpty(ret.m[K_error].s)

\* a retryable failure on every attempt came back as an error payload
C1_Witness ==
  /\ pc = "done"
  /\ retLine = 214
  /\ requests = 5
  /\ outcome.raised

\* C2: a successful report holds the six top-level fields, summary a string
\* and the other five lists.
C2_SixFieldsPresent ==
  Succeeded =>
    /\ ret.k = "obj"
    /\ \A f \in {K_unrecoverable_lines, K_common_ideas, K_uncategorized_lines,
                 K_observations, K_recommendations} :
         f \in DOMAIN ret.m /\ ret.m[f].k = "arr"
    /\ K_summary \in DOMAIN ret.m /\ ret.m[K_summary].k = "str"

\* a report came back for a reply in a json fence
C2_Witness ==
  /\ Succeeded
  /\ reply.k = "reply" /\ reply.wrap = "json" /\ reply.body = GoodReport

\* the confidences of a returned report: of every theme, and of every
\* example of a theme whose examples are a list
Confidences(report) ==
  LET ideas == report.m[K_common_ideas].a
  IN  {ideas[i].m[K_overall_confidence] : i \in 1..Len(ideas)}
        \cup UNION { IF ideas[i].m[K_examples].k = "arr"
                     THEN {ideas[i].m[K_examples].a[j].m[K_confidence] :
                             j \in 1..Len(ideas[i].m[K_examples].a)}
                     ELSE {} : i \in 1..Len(ideas) }

\* C3 as stated: every confidence of a successful report is an integer in
\* [0,100].  The code converts with int() and neither clamps nor rejects.
C3_ConfidencesInRange ==
  Succeeded =>
    \A c \in Confidences(ret) : c.k = "int" /\ c.n >= 0 /\ c.n <= 100

\* C4: with no lines the call returns exactly {"error": "No input data
\* provided"}: no prompt is built, the invoker is not entered, no request is
\* sent.
C4_EmptyInputShortCircuits ==
  (pc # "idle" /\ lines = <<>>) =>
    /\ pc = "done"
    /\ ret.k = "obj"
    /\ DOMAIN ret.m = {K_error}
    /\ ret.m[K_error] = Str(<<"No input data provided">>)
    /\ requests = 0
    /\ attempt_number = 0
    /\ prompt = <<>>

C4_Witness ==
  pc = "done" /\ lines = <<>> /\ retLine = 163

\* the reply of the latest request is being processed, or has been
Answered ==
  reply.k # "unset"

\* C5: when the attempts 1..k-1 fail with a retryable failure and attempt k
\* succeeds (k <= 5), exactly k requests were sent, the k-1 waits between
\* them are non-decreasing and each within [4, 30], and the call goes on
\* with the k-th reply: a well-formed report in it is what the call returns.
C5_RetryThenSuccess ==
  Answered =>
    /\ requests = attempt_number
    /\ requests <= 5
    /\ Len(delays) = requests - 1
    /\ \A i \in 1..Len(delays) : delays[i] >= 4 /\ delays[i] <= 30
    /\ \A i \in 1..(Len(delays) - 1) : delays[i] <= delays[i + 1]
    /\ (pc = "logging" /\ reply.k = "reply") => result = Str(ReplyText(reply))
    /\ (pc = "done" /\ reply.k = "reply" /\ reply.body = GoodReport
          /\ reply.wrap \in {"none", "json", "plain"})
         => /\ Succeeded
            /\ ret.m[K_summary] = Str(<<"s">>)
            /\ ret.m[K_common_ideas].a[1].m[K_overall_confidence] = [k |-> "int", n |-> 80]

\* four retryable failures, then a report from the fifth request
C5_Witness ==
  /\ Succeeded
  /\ requests = 5
  /\ delays = <<4, 4, 4, 8>>

\* the failures the specification calls retryable: transient connectivity,
\* rate limiting, malformed request, server-side error
SpecRetryable ==
  {"APIConnectionError", "APITimeoutError", "RateLimitError", "BadRequestError",
   "InternalServerError"}

\* C6 as stated: a first attempt that fails with a failure that is not
\* retryable ends the call at once: one request, no wait.  The code retries
\* an authentication failure, a subclass of APIError.
C6_NonRetryableFailsAtOnce ==
  (firstExc # "none" /\ firstExc \notin SpecRetryable) =>
    /\ pc = "done"
    /\ requests = 1
    /\ delays = <<>>

\* C7: a call sends at most 5 requests; when every attempt fails with a
\* failure the decorator retries, it sends exactly 5, and the failure of the
\* fifth is what reaches the handlers: the call returns the catch-all payload
\* with the text of that failure.
C7_ExhaustedRetriesSurfaceLast ==
  /\ requests <= 5
  /\ (pc = "done" /\ outcome.raised /\ issubclass(outcome.exc.cls, "APIError")) =>
       /\ requests = 5
       /\ Len(delays) = 4
       /\ retLine = 214
       /\ ret.k = "obj"
       /\ DOMAIN ret.m = {K_error}
       /\ ret.m[K_error] = Str(<<"An unexpected error occurred: ">> \o outcome.exc.msg)

C7_Witness ==
  /\ pc = "done"
  /\ requests = 5
  /\ outcome.raised
  /\ outcome.exc = [cls |-> "RateLimitError", msg |-> <<"Error code: 4xx">>]
  /\ retLine = 214

\* t is an object text: it starts with "{" and ends with "}"
IsBraced(t) ==
  Len(t) >= 2 /\ t[1] = "{" /\ t[Len(t)] = "}"

\* t holds no fence and neither starts nor ends with whitespace
IsBare(t) ==
  /\ ~IsSubstr(FENCE, t)
  /\ t = <<>> \/ (t[1] \notin Whitespace /\ t[Len(t)] \notin Whitespace)

\* C8: the text handed to the first json.loads is the inner {...} when the
\* trimmed reply is that object between an opening fence, with or without
\* the json tag, and a closing fence; it is the reply itself when the reply
\* has no fence and no whitespace around it.
C8_NormalizationOfFences ==
  (pc = "parsing" /\ reply.k = "reply") =>
    /\ (reply.wrap \in {"json", "plain", "json_tight", "json_padded"} /\ IsBraced(reply.body))
         => result = Str(reply.body)
    /\ (reply.wrap = "none" /\ IsBare(reply.body))
         => result = Str(reply.body)

C8_Witness ==
  /\ pc = "parsing"
  /\ reply.k = "reply" /\ reply.wrap = "json_padded" /\ reply.body = GoodReport
  /\ result = Str(GoodReport)

\* C9: json.loads is called at most twice in a call, the second time only
\* after the first has failed and on the repaired text; when the second
\* fails too the call returns (it does not raise) the payload whose
\* debug_info holds the message of that second failure and the first 500
\* characters, at most, of the cleaned response.
C9_TwoParseAttempts ==
  /\ loads_calls <= 2
  /\ Len(parseErrs) <= loads_calls
  /\ loads_calls = 2 => Len(parseErrs) >= 1
  /\ repaired_result.k # "unset" => (loads_calls = 2 /\ Len(parseErrs) >= 1)
  /\ Len(parseErrs) = 2 =>
       /\ pc = "done"
       /\ retLine = 195
       /\ IsErrorPayload(ret)
       /\ DOMAIN ret.m = {K_error, K_debug_info}
       /\ LET n == IF Len(result.s) < 500 THEN Len(result.s) ELSE 500
          IN  ret.m[K_debug_info] =
                Str(<<"Failed to parse JSON: ">> \o parseErrs[2].msg
                      \o <<". First 500 chars of response: ">>
                      \o SubSeq(result.s, 1, n))

\* both parses failed on a response of more than 500 characters
C9_Witness ==
  /\ pc = "done"
  /\ retLine = 195
  /\ Len(result.s) > 500
  /\ Len(parseErrs) = 2
  /\ parseErrs[1] # parseErrs[2]

\* the over-escaped replies: every quote of a JSON document written as
\* backslash-quote
OverEscapedBodies ==
  {OverEscaped(SmallObject), OverEscaped(GoodReport)}

\* title is a key of v, or of the first theme of v
HasTitleKey(v) ==
  /\ v.k = "obj"
  /\ \/ K_title \in DOMAIN v.m
     \/ /\ K_common_ideas \in DOMAIN v.m
        /\ v.m[K_common_ideas].k = "arr"
        /\ Len(v.m[K_common_ideas].a) >= 1
        /\ v.m[K_common_ideas].a[1].k = "obj"
        /\ K_title \in DOMAIN v.m[K_common_ideas].a[1].m

\* C10: for an over-escaped reply the strict parse fails, the text that
\* attempt_json_repair makes of it parses, and the value parsed has title as
\* a plain key.
C10_RepairOfOverEscapedQuotes ==
  (reply.k = "reply" /\ reply.body \in OverEscapedBodies) =>
    /\ pc \in {"repairing", "validating", "coercing", "done"} =>
         /\ Len(parseErrs) = 1
         /\ parseErrs[1].cls = "JSONDecodeError"
    /\ pc \in {"validating", "coercing", "done"} =>
         /\ loads_calls = 2
         /\ retLine # 195
         /\ repaired_result.k = "str"
         /\ ~IsSubstr(<<"\\">>, repaired_result.s)
         /\ parsed_result = loads(repaired_result.s).val
         /\ HasTitleKey(parsed_result)

C10_Witness ==
  /\ pc = "validating"
  /\ reply.k = "reply" /\ reply.wrap = "none" /\ reply.body = OverEscaped(SmallObject)
  /\ K_title \in DOMAIN parsed_result.m

\* the text of the error message of the payload returned
ErrorText ==
  ret.m[K_error].s

\* v holds the i-th required field with the kind required
HoldsField(v, i) ==
  /\ v.k = "obj"
  /\ FieldNames[i] \in DOMAIN v.m
  /\ v.m[FieldNames[i]].k = (IF FieldNames[i] = K_summary THEN "str" ELSE "arr")

\* the first of the six fields, in the order unrecoverable_lines,
\* common_ideas, uncategorized_lines, summary, observations, recommendations,
\* that v lacks or holds with the wrong kind; 0 when v holds all six
FirstOffending(v) ==
  IF \A i \in 1..6 : HoldsField(v, i)
  THEN 0
  ELSE CHOOSE i \in 1..6 : ~HoldsField(v, i) /\ \A j \in 1..(i - 1) : HoldsField(v, j)

\* the value json.loads gave has been judged: the call is over
Judged ==
  pc = "done" /\ parsed_result.k # "unset"

\* C11 as stated: a parsed value that lacks one of the six fields, or holds
\* it with the wrong kind, comes back as an error payload whose message names
\* the first such field.  The code does so for a JSON object, list or string;
\* for a parsed null, number or boolean the membership test itself raises
\* TypeError and the message is that of the catch-all clause.
C11_TopLevelFieldNamed ==
  (Judged /\ FirstOffending(parsed_result) # 0) =>
    /\ Failed
    /\ IsErrorPayload(ret)
    /\ IsSubstr(FieldNames[FirstOffending(parsed_result)], ErrorText)

\* what C11 says of the parsed values that are JSON objects does hold:
\* ValueError, with the first offending field at the end of the message
ObjectFieldNamed ==
  (Judged /\ parsed_result.k = "obj" /\ FirstOffending(parsed_result) # 0) =>
    /\ retLine = 211
    /\ ErrorText = <<"Analysis failed: ", "Missing or invalid field: ">>
                     \o FieldNames[FirstOffending(parsed_result)]

\* e holds every key of keys: it is a JSON object with these members
HoldsKeys(e, keys) ==
  e.k = "obj" /\ \A i \in 1..Len(keys) : keys[i] \in DOMAIN e.m

\* the themes of the parsed value v, which holds the six fields
Themes(v) ==
  v.m[K_common_ideas].a

\* some theme of v lacks title, overall_confidence or examples
SomeThemeLacksKeys(v) ==
  \E i \in 1..Len(Themes(v)) :
    ~HoldsKeys(Themes(v)[i], <<K_title, K_overall_confidence, K_examples>>)

\* some element of the list of examples of some theme of v lacks text or
\* confidence
SomeExampleLacksKeys(v) ==
  \E i \in 1..Len(Themes(v)) :
    /\ HoldsKeys(Themes(v)[i], <<K_examples>>)
    /\ Themes(v)[i].m[K_examples].k = "arr"
    /\ \E j \in 1..Len(Themes(v)[i].m[K_examples].a) :
         ~HoldsKeys(Themes(v)[i].m[K_examples].a[j], <<K_text, K_confidence>>)

\* C12 as stated: when a theme lacks one of its three keys, or an example
\* one of its two, the call returns an error payload whose message says
\* which of the two nested structures is invalid.  The code does so when the
\* element is a JSON object; an element that is a number or null makes the
\* membership test raise TypeError, and a list or a string that holds the
\* key names passes the test and fails later, at the subscript: the message
\* is then that of the catch-all clause.
C12_NestedStructureNamed ==
  (Judged /\ FirstOffending(parsed_result) = 0
     /\ (SomeThemeLacksKeys(parsed_result) \/ SomeExampleLacksKeys(parsed_result))) =>
    /\ Failed
    /\ IsErrorPayload(ret)
    /\ ErrorText \in {<<"Analysis failed: ", "Invalid common_ideas structure">>,
                      <<"Analysis failed: ", "Invalid example structure in common_ideas">>}
    /\ ~SomeExampleLacksKeys(parsed_result)
         => ErrorText = <<"Analysis failed: ", "Invalid common_ideas structure">>
    /\ ~SomeThemeLacksKeys(parsed_result)
         => ErrorText = <<"Analysis failed: ", "Invalid example structure in common_ideas">>

\* every theme, and every element of a list of examples, is a JSON object
ElementsAreObjects(v) ==
  \A i \in 1..Len(Themes(v)) :
    /\ Themes(v)[i].k = "obj"
    /\ (K_examples \in DOMAIN Themes(v)[i].m /\ Themes(v)[i].m[K_examples].k = "arr")
         => \A j \in 1..Len(Themes(v)[i].m[K_examples].a) :
              Themes(v)[i].m[K_examples].a[j].k = "obj"

\* what C12 says does hold when the elements are JSON objects
ObjectStructureNamed ==
  (Judged /\ FirstOffending(parsed_result) = 0 /\ ElementsAreObjects(parsed_result)
     /\ (SomeThemeLacksKeys(parsed_result) \/ SomeExampleLacksKeys(parsed_result))) =>
    /\ retLine = 211
    /\ ErrorText \in {<<"Analysis failed: ", "Invalid common_ideas structure">>,
                      <<"Analysis failed: ", "Invalid example structure in common_ideas">>}

\* the reply that is a report with the one theme idea
ReportOf(idea) ==
  Object(ReportMembers(Array(<<idea>>), Q(<<"s">>)))

\* the reply whose theme has the overall_confidence c
ThemeWith(c) ==
  ReportOf(IdeaText(c, Array(<<ExampleText(<<"7", "5">>)>>)))

\* the reply whose example has the confidence c
ExampleWith(c) ==
  ReportOf(IdeaText(<<"8", "0">>, Array(<<ExampleText(c)>>)))

\* "82" and 82.0, as written in a reply
Texts82 ==
  {Q(<<"8", "2">>), <<"8", "2", ".", "0">>}

TextHigh ==
  Q(<<"h", "i", "g", "h">>)

Int82 ==
  [k |-> "int", n |-> 82]

\* the call returned the payload of the except ValueError clause
ValidationFailure ==
  /\ pc = "done"
  /\ retLine = 211
  /\ IsErrorPayload(ret)
  /\ DOMAIN ret.m = {K_error}
  /\ ErrorText[1] = "Analysis failed: "

\* C13: a confidence written "82" or 82.0, of a theme or of an example, is
\* the integer 82 in the report returned; a confidence written "high" makes
\* the call return the validation-failure payload and no report.
C13_ConfidenceCoercion ==
  (pc = "done" /\ reply.k = "reply" /\ reply.wrap = "none") =>
    /\ reply.body \in {ThemeWith(c) : c \in Texts82} =>
         /\ Succeeded
         /\ ret.m[K_common_ideas].a[1].m[K_overall_confidence] = Int82
    /\ reply.body \in {ExampleWith(c) : c \in Texts82} =>
         /\ Succeeded
         /\ ret.m[K_common_ideas].a[1].m[K_examples].a[1].m[K_confidence] = Int82
    /\ reply.body \in {ThemeWith(TextHigh), ExampleWith(TextHigh)} =>
         /\ ValidationFailure
         /\ ErrorText = <<"Analysis failed: ", "invalid literal for int() with base 10: '",
                          "h", "i", "g", "h", "'">>

\* the report of a reply whose theme has the overall_confidence "82"
C13_Witness ==
  /\ Succeeded
  /\ reply.k = "reply" /\ reply.wrap = "none"
  /\ reply.body = ThemeWith(Q(<<"8", "2">>))
  /\ ret.m[K_common_ideas].a[1].m[K_overall_confidence] = Int82

\* the other cases of C13 happen too: 82.0 in an example, and "high"
C13_FloatExample ==
  /\ Succeeded
  /\ reply.k = "reply" /\ reply.body = ExampleWith(<<"8", "2", ".", "0">>)

C13_High ==
  /\ ValidationFailure
  /\ reply.k = "reply" /\ reply.body = ThemeWith(TextHigh)

\* C14 as stated: the value returned holds the key error exactly when the
\* call failed.  The code returns the validated parsed_result with every
\* member of the reply, so a reply that holds the six fields and an error
\* member comes back as a report with the key error.
C14_ErrorKeyIffFailure ==
  pc = "done" =>
    /\ ret.k = "obj"
    /\ (K_error \in DOMAIN ret.m) <=> Failed

\* what C14 says of the failures does hold: every failure return holds the
\* key error
FailureHoldsError ==
  Failed => IsErrorPayload(ret)

\* the stage of the call at p: 0 not called, 2 Invoking (the attempts and
\* the waits between them), 3 Normalizing, 4 Parsing (the strict parse and
\* the parse of the repaired text), 5 Validating, 6 Assembling, 7 Done.
\* Building, stage 1, is the part of Call that makes the prompt.
Stage(p) ==
  CASE p = "idle" -> 0
    [] p \in {"invoking", "waiting"} -> 2
    [] p = "logging" -> 3
    [] p \in {"parsing", "repairing"} -> 4
    [] p = "validating" -> 5
    [] p = "coercing" -> 6
    [] p \in {"done", "raised"} -> 7

\* one step of a call keeps the order of the stages
InStageOrder ==
  \* no stage is left for an earlier one
  /\ Stage(pc') >= Stage(pc)
  \* within a stage: the attempts of the invoker, and the one parse retry
  /\ (Stage(pc') = Stage(pc) /\ pc' # pc) =>
       <<pc, pc'>> \in {<<"invoking", "waiting">>, <<"waiting", "invoking">>,
                        <<"parsing", "repairing">>}
  \* a stage is left for the next one, or for Done
  /\ Stage(pc') > Stage(pc) =>
       \/ pc' = "done"
       \/ Stage(pc') = Stage(pc) + 1
       \/ pc = "idle" /\ pc' = "invoking" /\ prompt' = create_llm_prompt(lines')
  \* the second parse is the last
  /\ pc = "repairing" => loads_calls = 1 /\ loads_calls' = 2
  /\ pc' = "repairing" => loads_calls' = 1
  \* once a response is there, no other request is sent
  /\ reply.k # "unset" => (requests' = requests /\ reply' = reply)
  \* validation and coercion come after a parse that succeeded
  /\ pc' \in {"validating", "coercing"} =>
       /\ parsed_result'.k # "unset"
       /\ Len(parseErrs') = loads_calls' - 1
       /\ parsed_result' = loads(IF loads_calls' = 1 THEN result'.s ELSE repaired_result'.s).val
  \* the call ends with the report or with an error payload
  /\ pc' = "done" =>
       \/ retLine' = 207 /\ ret' = parsed_result'
       \/ retLine' # 207 /\ IsErrorPayload(ret')

\* C15: a call goes through Building, Invoking, Normalizing, Parsing,
\* Validating, Assembling in this order, leaving for Done with a report or
\* an error; it re-enters no stage but for the one parse retry; after a
\* response has come, a parse or validation failure sends no other request;
\* validation and coercion only run on the value of a parse that succeeded.
C15_StageOrder ==
  [][InStageOrder]_vars

\* a report returned after a second request and a second parse
C15_Witness ==
  /\ Succeeded
  /\ requests = 2
  /\ loads_calls = 2
  /\ Len(parseErrs) = 1

\* the offsets of the opening and of the closing braces of t
Opens(t) ==
  {i \in 1..Len(t) : t[i] = "{"}

Closes(t) ==
  {i \in 1..Len(t) : t[i] = "}"}

\* the braces open after t[a..j]
OpenDepth(t, a, j) ==
  Cardinality({i \in Opens(t) : a <= i /\ i <= j})
    - Cardinality({i \in Closes(t) : a <= i /\ i <= j})

\* the {...} blocks of t: from an opening brace to the brace that closes it
Blocks(t) ==
  {b \in Opens(t) \X Closes(t) :
     /\ b[1] < b[2]
     /\ OpenDepth(t, b[1], b[2]) = 0
     /\ \A j \in Closes(t) : (b[1] < j /\ j < b[2]) => OpenDepth(t, b[1], j) > 0}

\* the blocks that lie in no other block
TopLevelBlocks(t) ==
  {b \in Blocks(t) : ~\E c \in Blocks(t) : c[1] < b[1] /\ b[2] < c[2]}

\* the last top-level {...} block of t, and t when it has none
LastTopLevelBlock(t) ==
  IF TopLevelBlocks(t) = {}
  THEN t
  ELSE LET b == CHOOSE b \in TopLevelBlocks(t) : \A c \in TopLevelBlocks(t) : c[2] <= b[2]
       IN  SubSeq(t, b[1], b[2])

\* the reply is plain text: no fence, no escape, and short enough to look
\* for its blocks
PlainReply ==
  /\ reply.k = "reply"
  /\ reply.wrap = "none"
  /\ ~IsSubstr(FENCE, reply.body)
  /\ ~IsSubstr(<<"\\">>, reply.body)
  /\ Len(reply.body) < 400

\* C16 as stated: for a reply without fences the candidate handed to the
\* parse after extraction is the last top-level {...} block of the text, and
\* the text itself when it has no block.  The code takes the text from its
\* first opening brace on, and only when the text ends with a closing brace:
\* with noise after the object, or with two blocks, the candidate is not the
\* last block.
C16_LastBlockExtracted ==
  (PlainReply /\ repaired_result.k = "str") =>
    repaired_result.s = LastTopLevelBlock(strip(reply.body))

\* what C16 says of noise before the object does hold: the candidate is the
\* object and the call returns its report
LeadingNoiseRemoved ==
  (reply.k = "reply" /\ reply.wrap = "none" /\ reply.body = Noise \o GoodReport) =>
    /\ repaired_result.k = "str" => repaired_result.s = GoodReport
    /\ pc = "done" => (Succeeded /\ loads_calls = 2)

\* t is a theme of the shape of the data model: an object whose examples are
\* a list of objects that hold text and confidence
WellShapedTheme(t) ==
  /\ HoldsKeys(t, <<K_title, K_overall_confidence, K_examples>>)
  /\ t.m[K_examples].k = "arr"
  /\ \A j \in 1..Len(t.m[K_examples].a) :
       HoldsKeys(t.m[K_examples].a[j], <<K_text, K_confidence>>)

\* C17 as stated: in a report returned every theme is an object whose
\* examples are a list of objects holding text and confidence.  The code
\* iterates over idea["examples"] without asking what it is: an empty dict or
\* an empty str has nothing to visit, passes validation and coercion, and the
\* report comes back with it.
C17_NestedShapeOfReport ==
  Succeeded =>
    \A i \in 1..Len(Themes(ret)) : WellShapedTheme(Themes(ret)[i])

\* what C17 says of the themes does hold: every theme of a report returned
\* is an object with the three keys, and the elements of a list of examples
\* are objects with the two keys
ThemesAreObjects ==
  Succeeded =>
    \A i \in 1..Len(Themes(ret)) :
      /\ HoldsKeys(Themes(ret)[i], <<K_title, K_overall_confidence, K_examples>>)
      /\ Themes(ret)[i].m[K_examples].k = "arr" =>
           \A j \in 1..Len(Themes(ret)[i].m[K_examples].a) :
             HoldsKeys(Themes(ret)[i].m[K_examples].a[j], <<K_text, K_confidence>>)

\* the call returned the payload of the except json.JSONDecodeError clause:
\* the parse of the repaired text failed
ParseFailureSurvivedRepair ==
  pc = "done" /\ retLine = 195

\* C18: an error payload holds debug_info exactly when the second parse, of
\* the repaired text, failed; the payloads of the empty input, of a failed
\* invocation, of a validation or coercion failure and of the catch-all hold
\* the key error and nothing else.
C18_DebugInfoOnlyForParseFailure ==
  Failed =>
    /\ ret.k = "obj"
    /\ (K_debug_info \in DOMAIN ret.m) <=> ParseFailureSurvivedRepair
    /\ ParseFailureSurvivedRepair =>
         /\ DOMAIN ret.m = {K_error, K_debug_info}
         /\ loads_calls = 2 /\ Len(parseErrs) = 2
         /\ ret.m[K_debug_info].k = "str"
    /\ ~ParseFailureSurvivedRepair =>
         /\ DOMAIN ret.m = {K_error}
         /\ retLine \in {163, 211, 214}
         /\ Len(parseErrs) < 2

\* a validation failure after a repair: the second parse succeeded, the
\* value lacks summary, and the payload holds error alone
C18_Witness ==
  /\ pc = "done"
  /\ retLine = 211
  /\ loads_calls = 2
  /\ parsed_result.k = "obj" /\ FirstOffending(parsed_result) = 4
  /\ DOMAIN ret.m = {K_error}

\* the other failure returns happen too
C18_ParseFailure ==
  ParseFailureSurvivedRepair /\ K_debug_info \in DOMAIN ret.m

C18_InvocationFailure ==
  pc = "done" /\ retLine = 214 /\ outcome.raised /\ DOMAIN ret.m = {K_error}

\* what analyze_lessons returns for the lines ls when delivered is the last
\* outcome the remote model gave to its attempts: a function of these two
\* alone
analyze_lessons_alone(ls, delivered) ==
  IF no_lines(ls)
  THEN ErrorPayload(<<"No input data provided">>)
  ELSE IF delivered.raised
  THEN handle(reraise(delivered.exc)).ret
  ELSE analyze_response(delivered.val)

\* the value analyze_response gives is the value the steps of a call arrive
\* at, for every reply of the remote model
ResponseAgrees ==
  (pc = "done" /\ reply.k # "unset") =>
    ret = analyze_response(IF reply.k = "reply" THEN Str(ReplyText(reply)) ELSE None)

\* the call c has been made
Started(c) ==
  calls[c].pc # "idle"

\* every call stands on its own lines and on the outcomes of its own attempts
OwnInputsOnly ==
  \A c \in CallIds :
    /\ Started(c) =>
         /\ calls[c].lines = c
         /\ heap[c] = history[c].given
         /\ calls[c].pc # "done" => calls[c].prompt = create_llm_prompt(history[c].given)
    /\ history[c].request # Unset =>
         history[c].request = [model |-> MODEL, api_key |-> client.api_key,
                               prompt |-> create_llm_prompt(history[c].given)]
    /\ calls[c].pc = "logging" => calls[c].result = history[c].delivered.val
    /\ calls[c].pc = "done" =>
         calls[c].ret = analyze_lessons_alone(history[c].given, history[c].delivered)

\* a step is the step of one call: it leaves the frames, the lists and the
\* histories of the other calls alone, the list of a call that has started
\* too, and MODEL and client always
OneCallSteps ==
  /\ MODEL' = MODEL
  /\ client' = client
  /\ \A c \in CallIds : Started(c) => heap'[c] = heap[c]
  /\ \E c \in CallIds :
       \A d \in CallIds \ {c} :
         calls'[d] = calls[d] /\ heap'[d] = heap[d] /\ history'[d] = history[d]

\* C19: when calls run interleaved, what a call returns is a function of its
\* own lines and of the outcome the remote model gave to its own attempts,
\* every request carries its own prompt, no step of a call touches the
\* frame or the list of another call, MODEL and client stay what they were
\* at the start, and the list of the caller stays what it was given as.
C19_IndependentCalls ==
  []OwnInputsOnly /\ [][OneCallSteps]_vars

\* two calls that ran interleaved on different lines have returned, one a
\* report, the other the payload of a failure retried to the end
C19_Witness ==
  /\ calls[1].pc = "done" /\ calls[2].pc = "done"
  /\ history[1].given # history[2].given
  /\ history[1].given # <<>> /\ history[2].given # <<>>
  /\ ~history[1].delivered.raised
  /\ calls[1].ret.k = "obj" /\ K_summary \in DOMAIN calls[1].ret.m
  /\ history[2].delivered.raised
  /\ history[2].delivered.exc.cls = "RateLimitError"
  /\ IsErrorPayload(calls[2].ret)

\* two calls are under way at the same time
BothUnderWay ==
  calls[1].pc = "waiting" /\ calls[2].pc = "logging"

====
